---- MODULE Spec2Model ----
(***************************************************************************)
(* A model of otui_editor_pro.py: the OTUI/OTML parser and serializer      *)
(* (OTUIParser), the image helpers (collect_image_sources,                 *)
(* discover_images_base, resolve_image) and the text/undo/redo state of    *)
(* the editor window (OTUIEditor).                                         *)
(*                                                                         *)
(* A Python str is a sequence of one-character strings.  An OTUINode is a  *)
(* record in a heap (a sequence of records); a node is named by its index  *)
(* in the heap and its children field is the list of the indices of its    *)
(* children, so that the open-node stack of parse_text holds references    *)
(* to the nodes it appends to, as the lists of the code do.                *)
(***************************************************************************)
EXTENDS Integers, Sequences, FiniteSets, TLC

VARIABLES
  indent_size,  \* OTUIParser.indent_size
  text,         \* parse_text: the text being parsed
  lines,        \* parse_text: text.splitlines()
  idx,          \* parse_text: the position of the loop in lines
  heap,         \* parse_text: the nodes made so far, heap[1] is root
  stack,        \* parse_text: the stack of open nodes
  pc,           \* where the parse/serialize run stands
  out,          \* to_string: the text returned
  back,         \* parse_text(to_string(root)) of the round trip
  fs,           \* the filesystem: its directories, files and script contents
  listdir_rev,  \* the order in which the filesystem lists a directory
  images_base,  \* resolve_image: images_base, None or a path
  val,          \* resolve_image: val
  candidates,   \* resolve_image: candidates
  ci,           \* resolve_image: the position of the loop in candidates
  seen,         \* resolve_image: seen
  result,       \* resolve_image: the value returned
  rpc,          \* where the resolve_image call stands
  tree,         \* discover_images_base: root, a heap whose node 1 is the root
  hits,         \* discover_images_base: hits, (key, count) pairs in insertion order
  lua_hits,     \* discover_images_base: lua_hits, the same
  found,        \* discover_images_base: the value returned
  via,          \* discover_images_base: the strategy that returned, 1..3
  dpc,          \* where the discover_images_base call stands
  current_file,     \* OTUIEditor.current_file, None or a path
  current_root,     \* OTUIEditor.current_root, None or a heap whose node 1 is the root
  self_images_base, \* OTUIEditor.images_base, None or a path
  undo_stack,       \* OTUIEditor.undo_stack
  redo_stack,       \* OTUIEditor.redo_stack
  editor_text,      \* OTUIEditor.text: the plain text of the text pane
  items,            \* OTUIEditor.tree: its items, item 1 is the top-level item
  current_item,     \* OTUIEditor.tree.currentItem(): 0 for none, or an item
  edit_tag,         \* OTUIEditor.edit_tag: the text of the line edit
  edit_value,       \* OTUIEditor.edit_value: the text of the line edit
  parse_timer,      \* OTUIEditor.parse_timer: whether the single-shot timer runs
  preview,          \* OTUIEditor.preview_label: the image file shown, or None
  step,             \* history: "applied", "undone", "redone" after an
                    \* apply_change, then an undo, then a redo; else ""
  text_before,      \* history: the text before that apply_change
  text_applied      \* history: the text that apply_change produced

parseVars == <<indent_size, text, lines, idx, heap, stack, pc, out, back>>

callVars == <<images_base, val, candidates, ci, seen, result, rpc>>

resolveVars == <<fs, listdir_rev, callVars>>

discoverVars == <<tree, hits, lua_hits, found, via, dpc>>

editorVars ==
  <<current_file, current_root, self_images_base, undo_stack, redo_stack,
    editor_text, items, current_item, edit_tag, edit_value, parse_timer, preview>>

historyVars == <<step, text_before, text_applied>>

vars == <<parseVars, resolveVars, discoverVars, editorVars, historyVars>>

\* ------------------------------------------------------------------ bounds
MaxLines == 3        \* lines of a text
MaxIndent == 2       \* leading spaces of a line
MaxIndentSize == 2   \* OTUIParser.indent_size ranges over 1..MaxIndentSize
MaxFiles == 3        \* files that exist at once below the directories
MaxHist == 2         \* snapshots kept in undo_stack

\* ----------------------------------------------------------------- strings
SP == " "
NL == "\n"

Whitespace == {" ", "\t"}

Last(s) == s[Len(s)]

Front(s) == SubSeq(s, 1, Len(s) - 1)

MinOf(S) == CHOOSE x \in S : \A y \in S : x <= y

MaxOf(S) == CHOOSE x \in S : \A y \in S : y <= x

\* str.lstrip(): drop the leading whitespace
LStrip(s) ==
  LET keep == {k \in 1..Len(s) : s[k] \notin Whitespace}
  IN IF keep = {} THEN <<>> ELSE SubSeq(s, MinOf(keep), Len(s))

\* str.rstrip(): drop the trailing whitespace
RStrip(s) ==
  LET keep == {k \in 1..Len(s) : s[k] \notin Whitespace}
  IN IF keep = {} THEN <<>> ELSE SubSeq(s, 1, MaxOf(keep))

\* str.strip()
Strip(s) == RStrip(LStrip(s))

\* str.strip(chars) for a set of characters
StripChars(s, chars) ==
  LET keep == {k \in 1..Len(s) : s[k] \notin chars}
  IN IF keep = {} THEN <<>> ELSE SubSeq(s, MinOf(keep), MaxOf(keep))

\* str.lstrip(chars)
LStripChars(s, chars) ==
  LET keep == {k \in 1..Len(s) : s[k] \notin chars}
  IN IF keep = {} THEN <<>> ELSE SubSeq(s, MinOf(keep), Len(s))

\* str.startswith(p)
StartsWith(s, p) == Len(s) >= Len(p) /\ SubSeq(s, 1, Len(p)) = p

\* str.endswith(p)
EndsWith(s, p) == Len(s) >= Len(p) /\ SubSeq(s, Len(s) - Len(p) + 1, Len(s)) = p

\* c in s
Contains(s, c) == \E k \in 1..Len(s) : s[k] = c

\* str.splitlines() of a text whose only line boundary is "\n": a final
\* piece without a newline is a line unless it is empty
RECURSIVE SplitLines(_)
SplitLines(t) ==
  LET nls == {k \in 1..Len(t) : t[k] = NL}
  IN IF t = <<>> THEN <<>>
     ELSE IF nls = {} THEN <<t>>
     ELSE LET k == MinOf(nls)
          IN <<SubSeq(t, 1, k - 1)>> \o SplitLines(SubSeq(t, k + 1, Len(t)))

\* "\n".join(lines)
RECURSIVE JoinLines(_)
JoinLines(ls) ==
  IF ls = <<>> THEN <<>>
  ELSE IF Len(ls) = 1 THEN ls[1]
  ELSE ls[1] \o <<NL>> \o JoinLines(Tail(ls))

\* " " * n
Spaces(n) == [k \in 1..n |-> SP]

\* ------------------------------------------------------------------- nodes
COMMENT == <<"/", "/">>
ROOT == <<"R", "o", "o", "t">>

\* OTUINode(tag, value, depth, children)
OTUINode(tag, value, depth, children) ==
  [tag |-> tag, value |-> value, depth |-> depth, children |-> children]

\* a root made with depth 0 instead of -1
NewRootDepthZero == <<OTUINode(ROOT, <<>>, 0, <<>>)>>

\* the heap after root = OTUINode("Root", "", -1, []): the root is node 1
NewRoot == <<OTUINode(ROOT, <<>>, -1, <<>>)>>

\* stack[-1].children.append(node); stack.append(node)
Attach(h, stk, node) ==
  LET id == Len(h) + 1
      top == Last(stk)
  IN [heap |-> [Append(h, node) EXCEPT ![top].children = Append(@, id)],
      stack |-> Append(stk, id)]

\* ------------------------------------------------------------ parse_text
\* a depth that rounds the indentation up instead of down
depth_of_ceil(raw, stripped, sz) == (Len(raw) - Len(stripped) + sz - 1) \div sz

\* depth_of(raw, stripped) with indent size sz
depth_of(raw, stripped, sz) == (Len(raw) - Len(stripped)) \div sz

\* a pop loop that keeps a node of equal depth open (d < instead of d <=)
RECURSIVE PopStackStrict(_, _, _)
PopStackStrict(h, stk, d) ==
  IF stk # <<>> /\ d < h[Last(stk)].depth
  THEN PopStackStrict(h, Front(stk), d)
  ELSE stk

\* while stack and d <= stack[-1].depth: stack.pop()
RECURSIVE PopStack(_, _, _)
PopStack(h, stk, d) ==
  IF stk # <<>> /\ d <= h[Last(stk)].depth
  THEN PopStack(h, Front(stk), d)
  ELSE stk

\* the (tag, value) of a data line: split at the first colon when there is
\* one, both sides stripped
TagValue(stripped) ==
  IF Contains(stripped, ":")
  THEN LET k == MinOf({j \in 1..Len(stripped) : stripped[j] = ":"})
       IN <<Strip(SubSeq(stripped, 1, k - 1)),
            Strip(SubSeq(stripped, k + 1, Len(stripped)))>>
  ELSE <<Strip(stripped), <<>>>>

\* the node a non-blank line makes, before it is attached
LineNode(stripped, d) ==
  IF StartsWith(stripped, COMMENT)
  THEN OTUINode(COMMENT, Strip(SubSeq(stripped, 3, Len(stripped))), d, <<>>)
  ELSE OTUINode(TagValue(stripped)[1], TagValue(stripped)[2], d, <<>>)

\* one iteration of the loop over the lines; st = [heap, stack, err].  err
\* is set when stack[-1] is evaluated on an empty stack (IndexError).
ParseLine(st, raw, sz) ==
  LET stripped == LStrip(raw)
      d == depth_of(raw, stripped, sz)
      popped == PopStack(st.heap, st.stack, d)
  IN IF st.err \/ stripped = <<>> THEN st
     ELSE IF popped = <<>> THEN [st EXCEPT !.stack = popped, !.err = TRUE]
     ELSE LET a == Attach(st.heap, popped, LineNode(stripped, d))
          IN [heap |-> a.heap, stack |-> a.stack, err |-> FALSE]

RECURSIVE ParseLoop(_, _, _)
ParseLoop(st, ls, sz) ==
  IF ls = <<>> THEN st
  ELSE ParseLoop(ParseLine(st, Head(ls), sz), Tail(ls), sz)

\* parse_text(text): the heap whose node 1 is the returned root
parse_text(t, sz) ==
  ParseLoop([heap |-> NewRoot, stack |-> <<1>>, err |-> FALSE],
            SplitLines(t), sz).heap

\* -------------------------------------------------------------- to_string
\* the line of a node written with indentation d
NodeLine(n, d, sz) ==
  IF n.tag = COMMENT THEN Spaces(d * sz) \o <<"/", "/", SP>> \o n.value
  ELSE IF n.value # <<>> THEN Spaces(d * sz) \o n.tag \o <<":", SP>> \o n.value
  ELSE Spaces(d * sz) \o n.tag

\* write(n, d) of to_string: the lines appended to out
RECURSIVE write(_, _, _, _)
RECURSIVE writeAll(_, _, _, _)
writeAll(h, ids, d, sz) ==
  IF ids = <<>> THEN <<>>
  ELSE write(h, Head(ids), d, sz) \o writeAll(h, Tail(ids), d, sz)

write(h, id, d, sz) ==
  LET n == h[id]
  IN IF n.tag = ROOT THEN writeAll(h, n.children, 0, sz)
     ELSE IF n.tag = COMMENT THEN <<NodeLine(n, d, sz)>>
     ELSE <<NodeLine(n, d, sz)>> \o writeAll(h, n.children, d + 1, sz)

\* to_string(root)
to_string(h, sz) ==
  LET o == write(h, 1, 0, sz)
  IN JoinLines(o) \o (IF o # <<>> THEN <<NL>> ELSE <<>>)

\* ------------------------------------------------------------------- paths
\* A pathlib.Path is the sequence of its components below the root "/"; all
\* the paths of the model are absolute.  Optional[Path] is None or Some(p).
None == <<>>

Some(p) == <<p>>

\* str.replace(a, b) for single characters
Replace(s, a, b) == [k \in 1..Len(s) |-> IF s[k] = a THEN b ELSE s[k]]

\* str.lower() on the letters of the model
LowerChar(c) ==
  CASE c = "P" -> "p" [] c = "N" -> "n" [] c = "G" -> "g" [] c = "I" -> "i"
    [] c = "A" -> "a" [] c = "S" -> "s" [] OTHER -> c

Lower(s) == [k \in 1..Len(s) |-> LowerChar(s[k])]

\* the components of a path string: split at "/", without "" and "."
RECURSIVE PathParts(_)
PathParts(v) ==
  LET cuts == {k \in 1..Len(v) : v[k] = "/"}
      k == IF cuts = {} THEN Len(v) + 1 ELSE MinOf(cuts)
      first == SubSeq(v, 1, k - 1)
      rest == IF k >= Len(v) THEN <<>> ELSE PathParts(SubSeq(v, k + 1, Len(v)))
  IN IF v = <<>> THEN <<>>
     ELSE IF first = <<>> \/ first = <<".">> THEN rest
     ELSE <<first>> \o rest

\* Path(b) / v: a v that starts with "/" replaces b
JoinPath(b, v) == IF StartsWith(v, <<"/">>) THEN PathParts(v) ELSE b \o PathParts(v)

\* Path.name
Name(q) == IF q = <<>> THEN <<>> ELSE Last(q)

\* Path.parent
Parent(q) == IF q = <<>> THEN <<>> ELSE Front(q)

\* os.path.splitext(name)[1]: from the last dot on, unless only dots precede it
SplitExt(name) ==
  LET dots == {k \in 1..Len(name) : name[k] = "."}
  IN IF dots = {} THEN <<>>
     ELSE IF \E j \in 1..(MaxOf(dots) - 1) : name[j] # "."
          THEN SubSeq(name, MaxOf(dots), Len(name))
          ELSE <<>>

\* Path.resolve() in a filesystem without symbolic links: ".." steps back
RECURSIVE Resolved(_)
Resolved(q) ==
  IF q = <<>> THEN <<>>
  ELSE IF Last(q) = <<".", ".">> THEN Parent(Resolved(Front(q)))
  ELSE Append(Resolved(Front(q)), Last(q))

\* -------------------------------------------------------------- filesystem
n_m == <<"m">>
n_b1 == <<"b", ".", "1">>
n_i == <<"i">>
n_s == <<"s">>
f_p_png == <<"p", ".", "p", "n", "g">>
f_p_jpg == <<"p", ".", "j", "p", "g">>
f_p_gif == <<"p", ".", "g", "i", "f">>
f_P_PNG == <<"P", ".", "P", "N", "G">>
f_p == <<"p">>
n_d == <<"d">>
n_e == <<"e">>
n_g == <<"g">>
n_h == <<"h">>
n_images == <<"i", "m", "a", "g", "e", "s">>
n_textures == <<"t", "e", "x", "t", "u", "r", "e", "s">>
n_icons == <<"i", "c", "o", "n", "s">>
n_img == <<"i", "m", "g">>
n_resources == <<"r", "e", "s", "o", "u", "r", "c", "e", "s">>
n_assets == <<"a", "s", "s", "e", "t", "s">>
f_a_png == <<"a", ".", "p", "n", "g">>
f_b_png == <<"b", ".", "p", "n", "g">>
f_s_lua == <<"s", ".", "l", "u", "a">>
f_x_otui == <<"x", ".", "o", "t", "u", "i">>
f_x_otui_bak == f_x_otui \o <<".", "b", "a", "k">>

\* the directory of the document
OtuiDir == <<n_m>>

\* every path a filesystem of the model may hold, in listing order
Universe ==
  << <<n_b1>>, <<n_m>>,
     <<n_b1, n_i>>, <<n_m, n_i>>, <<n_m, n_s>>,
     <<n_b1, n_i, f_p_png>>, <<n_b1, n_i, f_p_jpg>>,
     <<n_m, n_i, f_p_png>>, <<n_m, n_i, f_p_gif>>,
     <<n_m, n_s, f_P_PNG>>, <<n_m, n_s, f_p>>,
     <<n_m, f_p_png>>,
     <<n_m, n_images>>, <<n_m, n_textures>>, <<n_m, n_icons>>,
     <<n_m, n_d>>, <<n_m, n_e>>, <<n_m, n_g>>, <<n_m, n_h>>,
     <<n_m, n_d, f_a_png>>, <<n_m, n_e, f_a_png>>, <<n_m, n_e, f_b_png>>,
     <<n_m, f_s_lua>>, <<n_m, f_x_otui>>, <<n_m, f_x_otui_bak>> >>

Reverse(sq) == [k \in 1..Len(sq) |-> sq[Len(sq) + 1 - k]]

\* os.listdir order: the entries of S directly under directory r
Listing(r, S) ==
  SelectSeq(IF listdir_rev THEN Reverse(Universe) ELSE Universe,
            LAMBDA q : q \in S /\ Len(q) = Len(r) + 1 /\ Front(q) = r)

\* Path.exists()
Exists(q) == q \in fs.dirs \/ q \in fs.files

\* Path.is_dir()
IsDir(q) == q \in fs.dirs

\* os.walk(top): the (r, files) pairs, top-down
RECURSIVE Walk(_)
RECURSIVE WalkAll(_)
WalkAll(ds) == IF ds = <<>> THEN <<>> ELSE Walk(Head(ds)) \o WalkAll(Tail(ds))

Walk(r) ==
  IF ~IsDir(r) THEN <<>>
  ELSE LET fl == Listing(r, fs.files)
       IN <<[r |-> r, files |-> [k \in 1..Len(fl) |-> Name(fl[k])]]>>
          \o WalkAll(Listing(r, fs.dirs))

\* ----------------------------------------------------------- resolve_image
IMG_EXTS ==
  << <<".", "p", "n", "g">>, <<".", "j", "p", "g">>, <<".", "j", "p", "e", "g">>,
     <<".", "b", "m", "p">>, <<".", "w", "e", "b", "p">>, <<".", "g", "i", "f">> >>

\* a normalization that forgets to strip the quotes
NormalizeKeepQuotes(v) ==
  LStripChars(Replace(Strip(v), "\\", "/"), {"/"})

\* val.strip().strip("'").strip('"').replace("\\", "/").lstrip("/")
Normalize(v) ==
  LStripChars(Replace(StripChars(StripChars(Strip(v), {"'"}), {"\""}), "\\", "/"),
              {"/"})

\* candidates under a directory that try the extensions in reverse order
DirCandidatesReversed(b, v) ==
  IF SplitExt(Name(JoinPath(b, v))) # <<>> THEN <<JoinPath(b, v)>>
  ELSE [e \in 1..Len(IMG_EXTS) |-> JoinPath(b, v \o IMG_EXTS[Len(IMG_EXTS) + 1 - e])]

\* the candidates under a directory b: b / v when its name has an
\* extension, else b / (v + e) for each e of IMG_EXTS
DirCandidates(b, v) ==
  IF SplitExt(Name(JoinPath(b, v))) # <<>> THEN <<JoinPath(b, v)>>
  ELSE [e \in 1..Len(IMG_EXTS) |-> JoinPath(b, v \o IMG_EXTS[e])]

\* the files of one (r, files) pair whose lowered name is base_name
NameMatches(w, base_name) ==
  LET hit == SelectSeq(w.files, LAMBDA f : Lower(f) = base_name)
  IN [k \in 1..Len(hit) |-> Append(w.r, hit[k])]

\* the candidates "por basename": every walked file named like v
RECURSIVE WalkMatches(_, _)
WalkMatches(ws, base_name) ==
  IF ws = <<>> THEN <<>>
  ELSE NameMatches(Head(ws), base_name) \o WalkMatches(Tail(ws), base_name)

\* the candidates list of resolve_image for the normalized value v
Candidates(base, otui_dir, v) ==
  (IF base # None THEN DirCandidates(base[1], v) ELSE <<>>)
  \o DirCandidates(otui_dir, v)
  \o WalkMatches(Walk(otui_dir), Lower(Name(PathParts(v))))

\* one iteration of "for c in candidates"; st = [seen, result, done]
CheckCandidate(st, cand) ==
  LET c == Resolved(cand)
  IN IF c \in st.seen THEN st
     ELSE IF Exists(c) THEN [seen |-> st.seen \cup {c}, result |-> Some(c), done |-> TRUE]
     ELSE [st EXCEPT !.seen = st.seen \cup {c}]

RECURSIVE ScanCandidates(_, _)
ScanCandidates(st, cands) ==
  IF st.done \/ cands = <<>> THEN st.result
  ELSE ScanCandidates(CheckCandidate(st, Head(cands)), Tail(cands))

\* resolve_image(images_base, otui_dir, val)
resolve_image(base, otui_dir, v) ==
  IF v = <<>> THEN None
  ELSE ScanCandidates([seen |-> {}, result |-> None, done |-> FALSE],
                      Candidates(base, otui_dir, Normalize(v)))

\* ---------------------------------------------------- discover_images_base
LIKELY_DIRS == <<n_images, n_textures, n_icons, n_img, n_resources, n_assets>>

IMAGE_SOURCE == <<"i", "m", "a", "g", "e", "-", "s", "o", "u", "r", "c", "e">>

\* collect_image_sources(root): walk(n) over the heap h, in pre-order
RECURSIVE collect_walk(_, _)
RECURSIVE collect_all(_, _)
collect_all(h, ids) ==
  IF ids = <<>> THEN <<>>
  ELSE collect_walk(h, Head(ids)) \o collect_all(h, Tail(ids))

collect_walk(h, id) ==
  (IF Lower(h[id].tag) = IMAGE_SOURCE /\ h[id].value # <<>>
   THEN <<StripChars(StripChars(Strip(h[id].value), {"'"}), {"\""})>>
   ELSE <<>>)
  \o collect_all(h, h[id].children)

collect_image_sources(h) == collect_walk(h, 1)

\* the count of key in a dict kept as (key, count) pairs, 0 when absent
CountOf(dict, key) ==
  LET at == {k \in 1..Len(dict) : dict[k].key = key}
  IN IF at = {} THEN 0 ELSE dict[CHOOSE k \in at : TRUE].count

\* dict[key] = dict.get(key, 0) + 1, keeping the insertion order
Increment(dict, key) ==
  IF \E k \in 1..Len(dict) : dict[k].key = key
  THEN [k \in 1..Len(dict) |->
          IF dict[k].key = key THEN [dict[k] EXCEPT !.count = @ + 1] ELSE dict[k]]
  ELSE Append(dict, [key |-> key, count |-> 1])

\* max(dict.items(), key=lambda kv: kv[1])[0]: the first entry with the
\* greatest count
BestKey(dict) ==
  dict[MinOf({k \in 1..Len(dict) :
                \A j \in 1..Len(dict) : dict[j].count <= dict[k].count})].key

\* a probe of the likely directories that takes the last that exists
FirstLikelyLast(mod_dir) ==
  LET ok == {k \in 1..Len(LIKELY_DIRS) : IsDir(Append(mod_dir, LIKELY_DIRS[k]))}
  IN IF ok = {} THEN None ELSE Some(Append(mod_dir, LIKELY_DIRS[MaxOf(ok)]))

\* 1) the first of LIKELY_DIRS that is a directory under mod_dir, or None
FirstLikely(mod_dir) ==
  LET ok == {k \in 1..Len(LIKELY_DIRS) : IsDir(Append(mod_dir, LIKELY_DIRS[k]))}
  IN IF ok = {} THEN None ELSE Some(Append(mod_dir, LIKELY_DIRS[MinOf(ok)]))

\* names = set(Path(v).name for v in imgs)
ImageNames(h) ==
  LET imgs == collect_image_sources(h)
  IN {Name(PathParts(imgs[k])) : k \in 1..Len(imgs)}

\* 2) hits: for every walked directory with common names, their number
RECURSIVE NameHits(_, _)
NameHits(ws, names) ==
  IF ws = <<>> THEN <<>>
  ELSE LET w == Head(ws)
           common == names \cap {w.files[k] : k \in 1..Len(w.files)}
       IN (IF common # {} THEN <<[key |-> w.r, count |-> Cardinality(common)]>>
           ELSE <<>>)
          \o NameHits(Tail(ws), names)

\* what the pattern "([^"]+\.(?:png|jpg|jpeg|bmp|gif|webp))" with
\* re.IGNORECASE accepts between two double quotes
IsImageLiteral(lit) ==
  \E e \in { <<".", "p", "n", "g">>, <<".", "j", "p", "g">>, <<".", "j", "p", "e", "g">>,
             <<".", "b", "m", "p">>, <<".", "g", "i", "f">>, <<".", "w", "e", "b", "p">> } :
    Len(lit) > Len(e) /\ EndsWith(Lower(lit), e)

\* the matches of one script in directory r counted into dict; a script
\* is the sequence of its double-quoted literals, or unreadable
RECURSIVE CountLiterals(_, _, _)
CountLiterals(dict, r, lits) ==
  IF lits = <<>> THEN dict
  ELSE CountLiterals(
         IF IsImageLiteral(Head(lits))
         THEN Increment(dict, Parent(JoinPath(r, Head(lits))))
         ELSE dict,
         r, Tail(lits))

\* the files f of one walked directory w, counted into dict
RECURSIVE CountScripts(_, _, _)
CountScripts(dict, w, files) ==
  IF files = <<>> THEN dict
  ELSE LET f == Head(files)
           q == Append(w.r, f)
       IN CountScripts(
            IF EndsWith(Lower(f), <<".", "l", "u", "a">>) /\ fs.scripts[q].readable
            THEN CountLiterals(dict, w.r, fs.scripts[q].literals)
            ELSE dict,
            w, Tail(files))

\* 3) lua_hits over the walk ws
RECURSIVE LuaHits(_, _)
LuaHits(dict, ws) ==
  IF ws = <<>> THEN dict
  ELSE LuaHits(CountScripts(dict, Head(ws), Head(ws).files), Tail(ws))

\* discover_images_base(otui_path, root), the three strategies in turn
discover_images_base(otui_path, h) ==
  LET mod_dir == Parent(otui_path)
      hs == NameHits(Walk(mod_dir), ImageNames(h))
      lh == LuaHits(<<>>, Walk(mod_dir))
  IN IF FirstLikely(mod_dir) # None THEN FirstLikely(mod_dir)
     ELSE IF hs # <<>> THEN Some(BestKey(hs))
     ELSE IF lh # <<>> /\ IsDir(BestKey(lh)) THEN Some(BestKey(lh))
     ELSE None

\* ------------------------------------------------------------- OTUIEditor
\* "if not self.undo_stack or self.undo_stack[-1] != txt" holds only for
\* an empty stack
NeedsPushWhenEmpty(stk, t) == stk = <<>>

\* if not self.undo_stack or self.undo_stack[-1] != txt
NeedsPush(stk, t) == stk = <<>> \/ Last(stk) # t

\* QTreeWidgetItem([text0, text1]) with its children
TreeItem(text0, text1, children) ==
  [text0 |-> text0, text1 |-> text1, children |-> children]

\* _populate_tree(root): the top-level item ["Root", ""] over an item
\* [ch.tag, ch.value] for every node under the root
populate_tree(h) ==
  [i \in 1..Len(h) |->
     IF i = 1 THEN TreeItem(ROOT, <<>>, h[1].children)
     ELSE TreeItem(h[i].tag, h[i].value, h[i].children)]

\* the depth that rec(item, depth) of _root_from_tree_widget is called
\* with for item i; -1 for the top-level item
RECURSIVE ItemDepth(_, _)
ItemDepth(its, i) ==
  IF i = 1 THEN -1
  ELSE 1 + ItemDepth(its, CHOOSE q \in 1..Len(its) :
                            \E c \in 1..Len(its[q].children) : its[q].children[c] = i)

\* _root_from_tree_widget(): a root OTUINode("Root", "", -1, []) over
\* OTUINode(item.text(0), item.text(1), depth, []) of every item below
\* the top-level item
root_from_tree_widget(its) ==
  IF its = <<>> THEN NewRoot
  ELSE [i \in 1..Len(its) |->
          IF i = 1 THEN OTUINode(ROOT, <<>>, -1, its[1].children)
          ELSE OTUINode(its[i].text0, its[i].text1, ItemDepth(its, i), its[i].children)]

\* "images" in val.lower()
HasSubstring(s, p) ==
  \E k \in 0..(Len(s) - Len(p)) : SubSeq(s, k + 1, k + Len(p)) = p

\* the directory resolve_image searches when no file is open: Path.cwd()
Cwd == <<n_m>>

\* _preview_image(val): the file whose pixmap is shown, or None
preview_image(v0) ==
  IF v0 = <<>> THEN None
  ELSE LET v == StripChars(StripChars(Strip(v0), {"'"}), {"\""})
           otui_dir == IF current_file # None THEN Parent(current_file[1]) ELSE Cwd
           full == resolve_image(self_images_base, otui_dir, v)
       IN IF full # None /\ Exists(full[1]) /\ full[1] \in fs.files
          THEN full ELSE None

\* update_preview_from_selection(): what the preview pane shows when
\* item cur of the items its is the current item
update_preview_from_selection(its, cur) ==
  IF cur = 0 THEN None
  ELSE LET tag == Lower(Strip(its[cur].text0))
           v == Strip(its[cur].text1)
       IN IF \/ tag = IMAGE_SOURCE
             \/ HasSubstring(Lower(v), <<"i", "m", "a", "g", "e", "s">>)
             \/ \E e \in 1..Len(IMG_EXTS) : EndsWith(Lower(v), IMG_EXTS[e])
          THEN preview_image(v)
          ELSE None

\* ------------------------------------------------ the parser run, by steps
Bodies ==
  { <<"a">>,
    <<"b", ":", SP, "1">>,
    <<"/", "/", SP, "n">> }

\* the lines a text is made of: a body behind 0..MaxIndent spaces, or blank
LineSet == {Spaces(w) \o b : w \in 0..MaxIndent, b \in Bodies} \cup {<<>>}

RECURSIVE TextsOf(_)
TextsOf(n) ==
  IF n = 0 THEN {<<>>}
  ELSE {t \o l \o <<NL>> : t \in TextsOf(n - 1), l \in LineSet}

\* spec.md section 8: "a", "  b: 1", "   c: 2"
FloorExample ==
  <<"a", NL, SP, SP, "b", ":", SP, "1", NL, SP, SP, SP, "c", ":", SP, "2", NL>>

\* spec.md section 8: "panel\n  // note\n    child: x\n"
CommentExample ==
  <<"p", NL, SP, SP, "/", "/", SP, "n", NL, SP, SP, SP, SP, "c", ":", SP, "x", NL>>

\* a line whose tag and value are both empty, with a line under it
EmptyExample == <<"a", NL, SP, SP, ":", NL, SP, SP, SP, SP, "b", NL>>

\* a data line whose tag is Root, with a line under it
RootTagExample ==
  <<"a", NL, SP, SP, "R", "o", "o", "t", ":", SP, "x", NL, SP, SP, SP, SP, "b", NL>>

\* lines with an empty tag, an empty value, a tab, and no final newline
MixedExample == <<":", SP, "v", NL, "\t", "t", ":", NL, NL, "z">>

Examples ==
  {FloorExample, CommentExample, EmptyExample, RootTagExample, MixedExample}

Texts == UNION {TextsOf(n) : n \in 0..MaxLines} \cup Examples

\* no parse_text / to_string run
ParseIdle ==
  /\ indent_size = 2
  /\ text = <<>>
  /\ lines = <<>>
  /\ idx = 0
  /\ heap = <<>>
  /\ stack = <<>>
  /\ pc = "idle"
  /\ out = <<>>
  /\ back = <<>>

\* no discover_images_base call
DiscoverIdle ==
  /\ tree = <<>>
  /\ hits = <<>>
  /\ lua_hits = <<>>
  /\ found = None
  /\ via = 0
  /\ dpc = "idle"

\* no resolve_image call
CallIdle ==
  /\ images_base = None
  /\ val = <<>>
  /\ candidates = <<>>
  /\ ci = 0
  /\ seen = {}
  /\ result = None
  /\ rpc = "idle"

\* no resolve_image call, an empty filesystem
ResolveIdle ==
  /\ fs = [dirs |-> {<<>>}, files |-> {}, scripts |-> <<>>]
  /\ listdir_rev = FALSE
  /\ CallIdle

\* the editor as OTUIEditor.__init__ leaves it
EditorIdle ==
  /\ current_file = None
  /\ current_root = None
  /\ self_images_base = None
  /\ undo_stack = <<>>
  /\ redo_stack = <<>>
  /\ editor_text = <<>>
  /\ items = <<>>
  /\ current_item = 0
  /\ edit_tag = <<>>
  /\ edit_value = <<>>
  /\ parse_timer = FALSE
  /\ preview = None
  /\ step = ""
  /\ text_before = <<>>
  /\ text_applied = <<>>

ParseInit ==
  /\ ResolveIdle
  /\ DiscoverIdle
  /\ EditorIdle
  /\ indent_size \in 1..MaxIndentSize
  /\ text \in Texts
  /\ lines = <<>>
  /\ idx = 0
  /\ heap = <<>>
  /\ stack = <<>>
  /\ pc = "start"
  /\ out = <<>>
  /\ back = <<>>

\* lines = text.splitlines(); root = OTUINode("Root", "", -1, []); stack = [root]
ParseBegin ==
  /\ pc = "start"
  /\ lines' = SplitLines(text)
  /\ idx' = 1
  /\ heap' = NewRoot
  /\ stack' = <<1>>
  /\ pc' = "loop"
  /\ UNCHANGED <<indent_size, text, out, back>>
  /\ UNCHANGED <<resolveVars, discoverVars, editorVars, historyVars>>

\* one iteration of "for raw in lines"
ParseStep ==
  /\ pc = "loop"
  /\ idx <= Len(lines)
  /\ LET st == ParseLine([heap |-> heap, stack |-> stack, err |-> FALSE],
                         lines[idx], indent_size)
     IN /\ heap' = st.heap
        /\ stack' = st.stack
        /\ pc' = IF st.err THEN "error" ELSE "loop"
  /\ idx' = idx + 1
  /\ UNCHANGED <<indent_size, text, lines, out, back>>
  /\ UNCHANGED <<resolveVars, discoverVars, editorVars, historyVars>>

\* return root
ParseReturn ==
  /\ pc = "loop"
  /\ idx > Len(lines)
  /\ pc' = "parsed"
  /\ UNCHANGED <<indent_size, text, lines, idx, heap, stack, out, back>>
  /\ UNCHANGED <<resolveVars, discoverVars, editorVars, historyVars>>

\* to_string(root) of the tree just parsed
Serialize ==
  /\ pc = "parsed"
  /\ out' = to_string(heap, indent_size)
  /\ pc' = "serialized"
  /\ UNCHANGED <<indent_size, text, lines, idx, heap, stack, back>>
  /\ UNCHANGED <<resolveVars, discoverVars, editorVars, historyVars>>

\* parse_text of the text just serialized
Reparse ==
  /\ pc = "serialized"
  /\ back' = parse_text(out, indent_size)
  /\ pc' = "reparsed"
  /\ UNCHANGED <<indent_size, text, lines, idx, heap, stack, out>>
  /\ UNCHANGED <<resolveVars, discoverVars, editorVars, historyVars>>

ParseNext == ParseBegin \/ ParseStep \/ ParseReturn \/ Serialize \/ Reparse

SpecParse == ParseInit /\ [][ParseNext]_vars

\* --------------------------------------------- the resolve_image call, by steps
\* the proper prefixes of the paths of S
Ancestors(S) == {SubSeq(q, 1, k) : q \in S, k \in 0..2} \ S

\* a filesystem with the files S, their directories and the directories ds
MakeFS(S, ds, scripts) ==
  [dirs |-> Ancestors(S) \cup ds \cup {<<>>}, files |-> S, scripts |-> scripts]

ResolveFiles ==
  { <<n_b1, n_i, f_p_png>>, <<n_b1, n_i, f_p_jpg>>,
    <<n_m, n_i, f_p_png>>, <<n_m, n_i, f_p_gif>>,
    <<n_m, n_s, f_P_PNG>>, <<n_m, n_s, f_p>>,
    <<n_m, f_p_png>> }

ResolveFileSystems ==
  {MakeFS(S, {<<n_b1>>, <<n_m>>}, <<>>) :
     S \in {T \in SUBSET ResolveFiles : Cardinality(T) <= MaxFiles}}

\* values without surrounding whitespace or quotes
CleanValues ==
  { <<"i", "/", "p">>,
    <<"i", "/", "p", ".", "p", "n", "g">>,
    f_p_png,
    <<>> }

Padded(v) == <<SP, SP>> \o v \o <<SP, SP>>

SingleQuoted(v) == <<"'">> \o v \o <<"'">>

DoubleQuoted(v) == <<"\"">> \o v \o <<"\"">>

Backslashed(v) == Replace(v, "/", "\\")

LeadingSlash(v) == <<"/">> \o v

\* the ways of writing v that the normalization is to undo
Variants(v) ==
  {Padded(v), SingleQuoted(v), DoubleQuoted(v), Backslashed(v), LeadingSlash(v),
   Padded(SingleQuoted(v))}

Values == CleanValues \cup UNION {Variants(v) : v \in CleanValues}

ResolveInit ==
  /\ EditorIdle
  /\ ParseIdle
  /\ DiscoverIdle
  /\ fs \in ResolveFileSystems
  /\ listdir_rev \in BOOLEAN
  /\ images_base \in {None, Some(<<n_b1>>), Some(<<n_m, n_i>>)}
  /\ val \in Values
  /\ candidates = <<>>
  /\ ci = 0
  /\ seen = {}
  /\ result = None
  /\ rpc = "call"

\* if not val: return None; else normalize and build the candidates
ResolveBegin ==
  /\ rpc = "call"
  /\ IF val = <<>>
     THEN /\ rpc' = "return"
          /\ UNCHANGED candidates
     ELSE /\ candidates' = Candidates(images_base, OtuiDir, Normalize(val))
          /\ rpc' = "scan"
  /\ ci' = 1
  /\ UNCHANGED <<fs, listdir_rev, images_base, val, seen, result>>
  /\ UNCHANGED <<parseVars, discoverVars, editorVars, historyVars>>

\* one iteration of "for c in candidates"
ResolveCheck ==
  /\ rpc = "scan"
  /\ ci <= Len(candidates)
  /\ LET st == CheckCandidate([seen |-> seen, result |-> result, done |-> FALSE],
                              candidates[ci])
     IN /\ seen' = st.seen
        /\ result' = st.result
        /\ rpc' = IF st.done THEN "return" ELSE "scan"
  /\ ci' = ci + 1
  /\ UNCHANGED <<fs, listdir_rev, images_base, val, candidates>>
  /\ UNCHANGED <<parseVars, discoverVars, editorVars, historyVars>>

\* return None after the loop
ResolveNone ==
  /\ rpc = "scan"
  /\ ci > Len(candidates)
  /\ result' = None
  /\ rpc' = "return"
  /\ UNCHANGED <<fs, listdir_rev, images_base, val, candidates, ci, seen>>
  /\ UNCHANGED <<parseVars, discoverVars, editorVars, historyVars>>

ResolveNext == ResolveBegin \/ ResolveCheck \/ ResolveNone

SpecResolve == ResolveInit /\ [][ResolveNext]_vars

\* ------------------------------------ the discover_images_base call, by steps
\* the path of the document
OtuiPath == <<n_m, f_x_otui>>

DocTexts ==
  { <<"w", NL>>,
    IMAGE_SOURCE \o <<":", SP>> \o f_a_png \o <<NL>>,
    <<"I", "m", "a", "g", "e", "-", "S", "o", "u", "r", "c", "e", ":", SP, "'", "d", "/">>
      \o f_a_png \o <<"'", NL, SP, SP>> \o IMAGE_SOURCE \o <<":", SP>> \o f_b_png \o <<NL>> }

\* the literals of the script s.lua, when there is one
g_a_png == <<"g", "/", "a", ".", "p", "n", "g">>
g_b_png == <<"g", "/", "b", ".", "p", "n", "g">>
g_A_PNG == <<"g", "/", "A", ".", "P", "N", "G">>
h_c_png == <<"h", "/", "c", ".", "p", "n", "g">>

ScriptTexts ==
  { [readable |-> TRUE, literals |-> <<g_a_png, g_b_png, h_c_png>>],
    [readable |-> TRUE, literals |-> <<h_c_png, g_a_png>>],
    [readable |-> TRUE, literals |-> <<g_A_PNG, <<"x">>, <<".", "p", "n", "g">>>>],
    [readable |-> FALSE, literals |-> <<g_a_png>>] }

DiscoverFileSystems ==
  {MakeFS(S \cup {OtuiPath}, ds \cup {<<n_m>>}, <<>>) :
     S \in SUBSET {<<n_m, n_textures>>, <<n_m, n_d, f_a_png>>,
                   <<n_m, n_e, f_a_png>>, <<n_m, n_e, f_b_png>>},
     ds \in SUBSET {<<n_m, n_images>>, <<n_m, n_icons>>, <<n_m, n_g>>, <<n_m, n_h>>}}
  \cup
  {MakeFS(S \cup {OtuiPath, <<n_m, f_s_lua>>}, ds \cup {<<n_m>>},
          [q \in {<<n_m, f_s_lua>>} |-> sc]) :
     S \in SUBSET {<<n_m, n_textures>>, <<n_m, n_d, f_a_png>>,
                   <<n_m, n_e, f_a_png>>, <<n_m, n_e, f_b_png>>},
     ds \in SUBSET {<<n_m, n_images>>, <<n_m, n_icons>>, <<n_m, n_g>>, <<n_m, n_h>>},
     sc \in ScriptTexts}

DiscoverInit ==
  /\ ParseIdle
  /\ EditorIdle
  /\ CallIdle
  /\ fs \in DiscoverFileSystems
  /\ listdir_rev \in BOOLEAN
  /\ tree \in {parse_text(t, 2) : t \in DocTexts}
  /\ hits = <<>>
  /\ lua_hits = <<>>
  /\ found = None
  /\ via = 0
  /\ dpc = "likely"

\* 1) for d in LIKELY_DIRS: if (mod_dir / d).is_dir(): return it
DiscoverLikely ==
  /\ dpc = "likely"
  /\ IF FirstLikely(Parent(OtuiPath)) # None
     THEN /\ found' = FirstLikely(Parent(OtuiPath))
          /\ via' = 1
          /\ dpc' = "done"
     ELSE /\ dpc' = "names"
          /\ UNCHANGED <<found, via>>
  /\ UNCHANGED <<tree, hits, lua_hits>>
  /\ UNCHANGED <<parseVars, resolveVars, editorVars, historyVars>>

\* 2) the directory with the most files named like an image-source value
DiscoverNames ==
  /\ dpc = "names"
  /\ hits' = NameHits(Walk(Parent(OtuiPath)), ImageNames(tree))
  /\ IF hits' # <<>>
     THEN /\ found' = Some(BestKey(hits'))
          /\ via' = 2
          /\ dpc' = "done"
     ELSE /\ dpc' = "scripts"
          /\ UNCHANGED <<found, via>>
  /\ UNCHANGED <<tree, lua_hits>>
  /\ UNCHANGED <<parseVars, resolveVars, editorVars, historyVars>>

\* 3) the folder the .lua files name most, when it is a directory; else None
DiscoverScripts ==
  /\ dpc = "scripts"
  /\ lua_hits' = LuaHits(<<>>, Walk(Parent(OtuiPath)))
  /\ found' = IF lua_hits' # <<>> /\ IsDir(BestKey(lua_hits'))
              THEN Some(BestKey(lua_hits'))
              ELSE None
  /\ via' = 3
  /\ dpc' = "done"
  /\ UNCHANGED <<tree, hits>>
  /\ UNCHANGED <<parseVars, resolveVars, editorVars, historyVars>>

DiscoverNext == DiscoverLikely \/ DiscoverNames \/ DiscoverScripts

SpecDiscover == DiscoverInit /\ [][DiscoverNext]_vars

\* ------------------------------------------------ the editor, by handlers
\* the contents of the file the user opens
OpenTexts ==
  { <<"a", NL>>,
    <<"a", NL, SP, SP, SP, "c", ":", SP, "1", NL>> }

\* the text the user leaves in the text pane, one that to_string does
\* not write
FreeTexts == { <<"a", NL, SP, SP, SP, "c", ":", SP, "1", NL>> }

\* what the user types into the Tag and Value line edits
TypedFields == { [tag |-> <<"b">>, value |-> f_p_png] }

\* the document and an image beside it, and an images directory
EditorFileSystems ==
  {MakeFS({OtuiPath, <<n_m, f_p_png>>}, {<<n_m>>, <<n_m, n_images>>}, <<>>)}

EditorInit ==
  /\ ParseIdle
  /\ DiscoverIdle
  /\ CallIdle
  /\ fs \in EditorFileSystems
  /\ listdir_rev = FALSE
  /\ EditorIdle

\* no apply_change, undo, redo in a row is under way
NoStep ==
  /\ step' = ""
  /\ text_before' = <<>>
  /\ text_applied' = <<>>

\* _reparse_from_text() but for the history: the text pane is parsed,
\* the tree is cleared and filled again, which leaves no current item
reparse_from_text ==
  /\ current_root' = parse_text(editor_text', indent_size)
  /\ items' = populate_tree(current_root')
  /\ current_item' = 0
  /\ preview' = None

\* discover_images_base(fp, self.current_root)
DiscoverNow == discover_images_base(current_file[1], current_root)

\* open_file(): the file is read and backed up, its text set, parsed and
\* pushed on the history, and the images folder looked for; undo_stack
\* is kept to MaxHist snapshots
open_file ==
  \E txt \in OpenTexts :
    /\ NeedsPush(undo_stack, txt) => Len(undo_stack) < MaxHist
    /\ current_file' = Some(OtuiPath)
    /\ fs' = [fs EXCEPT !.files = @ \cup {<<n_m, f_x_otui_bak>>}]
    /\ editor_text' = txt
    /\ reparse_from_text
    /\ IF NeedsPush(undo_stack, txt)
       THEN /\ undo_stack' = Append(undo_stack, txt)
            /\ redo_stack' = <<>>
       ELSE UNCHANGED <<undo_stack, redo_stack>>
    /\ UNCHANGED <<edit_tag, edit_value, parse_timer, listdir_rev>>
    /\ self_images_base' = DiscoverNow'
    /\ NoStep
    /\ UNCHANGED <<parseVars, callVars, discoverVars>>

\* the user edits the text pane: textChanged starts the debounce timer
text_changed ==
  \E txt \in FreeTexts :
    /\ txt # editor_text
    /\ editor_text' = txt
    /\ parse_timer' = TRUE
    /\ UNCHANGED <<current_file, current_root, self_images_base, undo_stack,
                   redo_stack, items, current_item, edit_tag, edit_value, preview>>
    /\ NoStep
    /\ UNCHANGED <<parseVars, resolveVars, discoverVars>>

\* parse_timer.timeout: _reparse_from_text(push_history=False)
parse_timer_timeout ==
  /\ parse_timer
  /\ parse_timer' = FALSE
  /\ editor_text' = editor_text
  /\ reparse_from_text
  /\ UNCHANGED <<current_file, self_images_base, undo_stack, redo_stack,
                 edit_tag, edit_value>>
  /\ NoStep
  /\ UNCHANGED <<parseVars, resolveVars, discoverVars>>

\* the user clicks an item of the tree: it becomes the current item and
\* on_tree_click(item, col) copies its texts to the line edits
on_tree_click ==
  \E it \in 1..Len(items) :
    /\ current_item' = it
    /\ edit_tag' = items[it].text0
    /\ edit_value' = items[it].text1
    /\ UNCHANGED <<current_file, current_root, self_images_base, undo_stack,
                   redo_stack, editor_text, items, parse_timer>>
    /\ preview' = update_preview_from_selection(items, it)
    /\ NoStep
    /\ UNCHANGED <<parseVars, resolveVars, discoverVars>>

\* the user types into the Tag and Value line edits
edit_fields ==
  \E f \in TypedFields :
    /\ edit_tag' = f.tag
    /\ edit_value' = f.value
    /\ UNCHANGED <<current_file, current_root, self_images_base, undo_stack,
                   redo_stack, editor_text, items, current_item, parse_timer,
                   preview>>
    /\ NoStep
    /\ UNCHANGED <<parseVars, resolveVars, discoverVars>>

\* apply_change(): with a current item, the text is pushed on undo_stack
\* unless it is its top, the item takes the texts of the line edits, and
\* the text pane takes to_string of the tree; undo_stack is kept to
\* MaxHist snapshots
apply_change ==
  /\ current_item # 0
  /\ NeedsPush(undo_stack, editor_text) => Len(undo_stack) < MaxHist
  /\ IF NeedsPush(undo_stack, editor_text)
     THEN /\ undo_stack' = Append(undo_stack, editor_text)
          /\ redo_stack' = <<>>
     ELSE UNCHANGED <<undo_stack, redo_stack>>
  /\ items' = [items EXCEPT ![current_item].text0 = edit_tag,
                            ![current_item].text1 = edit_value]
  /\ current_root' = root_from_tree_widget(items')
  /\ editor_text' = to_string(current_root', indent_size)
  /\ UNCHANGED <<current_file, self_images_base, current_item, edit_tag,
                 edit_value, parse_timer>>
  /\ preview' = update_preview_from_selection(items', current_item)
  /\ step' = "applied"
  /\ text_before' = editor_text
  /\ text_applied' = editor_text'
  /\ UNCHANGED <<parseVars, resolveVars, discoverVars>>

\* undo(): the text goes on redo_stack, the top of undo_stack is popped
\* into the text pane and parsed
undo ==
  /\ undo_stack # <<>>
  /\ redo_stack' = Append(redo_stack, editor_text)
  /\ editor_text' = Last(undo_stack)
  /\ undo_stack' = Front(undo_stack)
  /\ reparse_from_text
  /\ UNCHANGED <<current_file, self_images_base, edit_tag, edit_value, parse_timer>>
  /\ IF step = "applied"
     THEN step' = "undone" /\ UNCHANGED <<text_before, text_applied>>
     ELSE NoStep
  /\ UNCHANGED <<parseVars, resolveVars, discoverVars>>

\* redo(): the text goes on undo_stack, the top of redo_stack is popped
\* into the text pane and parsed
redo ==
  /\ redo_stack # <<>>
  /\ undo_stack' = Append(undo_stack, editor_text)
  /\ editor_text' = Last(redo_stack)
  /\ redo_stack' = Front(redo_stack)
  /\ reparse_from_text
  /\ UNCHANGED <<current_file, self_images_base, edit_tag, edit_value, parse_timer>>
  /\ IF step = "undone"
     THEN step' = "redone" /\ UNCHANGED <<text_before, text_applied>>
     ELSE NoStep
  /\ UNCHANGED <<parseVars, resolveVars, discoverVars>>

EditorNext ==
  \/ open_file
  \/ text_changed
  \/ parse_timer_timeout
  \/ on_tree_click
  \/ edit_fields
  \/ apply_change
  \/ undo
  \/ redo

SpecEditor == EditorInit /\ [][EditorNext]_vars

\* ------------------------------------------------- properties of the parser
\* the number of leading whitespace characters of a line
Lead(l) == Len(l) - Len(LStrip(l))

\* the non-blank lines of the text, in order
SrcLines == SelectSeq(SplitLines(text), LAMBDA l : LStrip(l) # <<>>)

\* the nodes that have node id among their children
ParentsOf(h, id) ==
  {q \in 1..Len(h) : \E c \in 1..Len(h[q].children) : h[q].children[c] = id}

\* the tree under node id without the depth fields
RECURSIVE Shape(_, _)
Shape(h, id) ==
  [tag |-> h[id].tag, value |-> h[id].value,
   children |-> [c \in 1..Len(h[id].children) |-> Shape(h, h[id].children[c])]]

\* every non-blank line is indented by a multiple of indent_size
ConsistentIndent ==
  LET src == SrcLines
  IN \A k \in 1..Len(src) : Lead(src[k]) % indent_size = 0

\* C1: for a text whose non-blank lines are all indented by multiples of
\* indent_size, parse_text(to_string(parse_text(T))) has the same tags,
\* values and ordered children as parse_text(T).
C1_RoundTrip ==
  (pc = "reparsed" /\ ConsistentIndent) => Shape(back, 1) = Shape(heap, 1)

\* one line per descendant of the nodes ids, in pre-order, indented by r
RECURSIVE DescendantLines(_, _, _, _)
DescendantLines(h, ids, r, sz) ==
  IF ids = <<>> THEN <<>>
  ELSE <<NodeLine(h[Head(ids)], r, sz)>>
       \o DescendantLines(h, h[Head(ids)].children, r + 1, sz)
       \o DescendantLines(h, Tail(ids), r, sz)

\* C2: to_string emits exactly one line for every descendant of the root,
\* comment nodes included, in depth-first pre-order, indented by
\* indent_size * r spaces with r = 0 for the root's children and the
\* parent's r + 1 below; lines are joined by a newline with one trailing
\* newline and a root without children gives the empty string.
C2_OneLinePerDescendant ==
  pc \in {"serialized", "reparsed"} =>
    LET ls == DescendantLines(heap, heap[1].children, 0, indent_size)
    IN out = IF ls = <<>> THEN <<>> ELSE JoinLines(ls) \o <<NL>>

\* the computed depths of the non-blank lines src
LineDepths(src) ==
  [k \in 1..Len(src) |-> depth_of(src[k], LStrip(src[k]), indent_size)]

\* the node of the nearest line before the k-th of smaller depth, or root
NearestShallower(dep, k) ==
  LET smaller == {j \in 1..(k - 1) : dep[j] < dep[k]}
  IN IF smaller = {} THEN 1 ELSE MaxOf(smaller) + 1

\* C3: every non-blank line makes exactly one node, a child of the node of
\* the nearest preceding non-blank line of strictly smaller depth (of the
\* root when there is none), and children are in source-line order.
C3_ParentAttachment ==
  pc = "parsed" =>
    LET src == SrcLines
        dep == LineDepths(src)
    IN /\ Len(heap) = Len(src) + 1
       /\ ParentsOf(heap, 1) = {}
       /\ \A k \in 1..Len(src) :
            /\ ParentsOf(heap, k + 1) = {NearestShallower(dep, k)}
            /\ heap[k + 1].tag = LineNode(LStrip(src[k]), 0).tag
            /\ heap[k + 1].value = LineNode(LStrip(src[k]), 0).value
       /\ \A q \in 1..Len(heap) : \A c \in 1..(Len(heap[q].children) - 1) :
            heap[q].children[c] < heap[q].children[c + 1]

\* a comment node with two children of equal depth
C3_Witness ==
  /\ pc = "parsed"
  /\ \E q \in 2..Len(heap) :
       /\ heap[q].tag = COMMENT
       /\ Len(heap[q].children) = 2
       /\ heap[heap[q].children[1]].depth = heap[heap[q].children[2]].depth

\* a line with its indentation cut down to a multiple of indent_size
RoundDown(l) == SubSeq(l, (Lead(l) % indent_size) + 1, Len(l))

RoundedText ==
  LET ls == SplitLines(text)
  IN JoinLines([k \in 1..Len(ls) |-> RoundDown(ls[k])])

\* C4: the stored depth of a line with w leading whitespace characters is
\* floor(w / indent_size); the text parses to the same tree, depths
\* included, as the text with every indentation cut down to a multiple of
\* indent_size; in "a", "  b: 1", "   c: 2" with indent_size 2, c has depth 1
\* and is a child of a, and b has no child.
C4_FloorDepth ==
  pc = "parsed" =>
    LET src == SrcLines
    IN /\ \A k \in 1..Len(src) :
            /\ heap[k + 1].depth * indent_size <= Lead(src[k])
            /\ Lead(src[k]) < (heap[k + 1].depth + 1) * indent_size
       /\ parse_text(RoundedText, indent_size) = heap
       /\ (text = FloorExample /\ indent_size = 2) =>
            /\ heap[4].tag = <<"c">> /\ heap[4].depth = 1
            /\ heap[2].tag = <<"a">> /\ heap[2].children = <<3, 4>>
            /\ heap[3].children = <<>>

\* the example of the claim, parsed, and a line of a general text whose
\* indentation is no multiple of indent_size
C4_Witness ==
  /\ pc = "parsed"
  /\ text = FloorExample
  /\ indent_size = 2
  /\ Lead(SrcLines[3]) % indent_size = 1

\* C5: parse_text never fails: at every step of the loop the stack is
\* non-empty with the root (depth -1) at its bottom and strictly increasing
\* depths from bottom to top, and the root returned has tag Root, depth -1.
C5_ParseTotal ==
  /\ pc # "error"
  /\ pc = "loop" =>
       /\ stack # <<>>
       /\ stack[1] = 1
       /\ \A k \in 1..(Len(stack) - 1) :
            heap[stack[k]].depth < heap[stack[k + 1]].depth
  /\ pc \in {"loop", "parsed"} =>
       /\ heap[1].tag = ROOT
       /\ heap[1].depth = -1

\* the loop has ended after a line popped deeper nodes off the stack
C5_Witness ==
  /\ pc = "loop"
  /\ idx > Len(lines)
  /\ Len(heap) = 4
  /\ Len(stack) = 2

\* ------------------------------------------- properties of resolve_image
\* the first path of a list that exists, or None
FirstExisting(list) ==
  LET ex == {k \in 1..Len(list) : Exists(list[k])}
  IN IF ex = {} THEN None ELSE Some(list[MinOf(ex)])

\* the value has a file extension
HasExtension(v) == SplitExt(Name(PathParts(v))) # <<>>

\* the value itself if it has a file extension, else the value with each of
\* .png, .jpg, .jpeg, .bmp, .webp, .gif, under directory b
ClaimedUnder(b, v) ==
  IF HasExtension(v) THEN <<JoinPath(b, v)>>
  ELSE << JoinPath(b, v \o <<".", "p", "n", "g">>),
          JoinPath(b, v \o <<".", "j", "p", "g">>),
          JoinPath(b, v \o <<".", "j", "p", "e", "g">>),
          JoinPath(b, v \o <<".", "b", "m", "p">>),
          JoinPath(b, v \o <<".", "w", "e", "b", "p">>),
          JoinPath(b, v \o <<".", "g", "i", "f">>) >>

\* the ordered candidate list of the claim
ClaimedCandidates(v) ==
  (IF images_base # None THEN ClaimedUnder(images_base[1], v) ELSE <<>>)
  \o ClaimedUnder(OtuiDir, v)
  \o WalkMatches(Walk(OtuiDir), Lower(Name(PathParts(v))))

\* C6: resolve_image returns the first existing path of the ordered list
\* (1) under images_base, when given, the value itself if it has a file
\* extension, else the value with each of the six extensions in order,
\* (2) the same under the document directory, (3) the walked files named
\* like the value's basename; None when none exists.  So an existing
\* candidate under images_base wins over the document directory.
C6_FirstExisting ==
  rpc = "return" =>
    /\ result = FirstExisting(ClaimedCandidates(Normalize(val)))
    /\ (images_base # None
        /\ \E k \in 1..Len(ClaimedUnder(images_base[1], Normalize(val))) :
             Exists(ClaimedUnder(images_base[1], Normalize(val))[k]))
       => result[1] \in
            {ClaimedUnder(images_base[1], Normalize(val))[k] :
               k \in 1..Len(ClaimedUnder(images_base[1], Normalize(val)))}

\* C6 for the values that name something: the claim's list decides whenever
\* the normalized value has a last component
C6_NamedValues ==
  (rpc = "return" /\ PathParts(Normalize(val)) # <<>>) =>
    result = FirstExisting(ClaimedCandidates(Normalize(val)))

\* the step-wise call returns what the operator resolve_image computes
ResolveStepsAgree ==
  rpc = "return" => result = resolve_image(images_base, OtuiDir, val)

\* C9: for every value v without surrounding whitespace or quotes,
\* resolve_image gives the same result for v padded with whitespace, wrapped
\* in single or double quotes, written with backslashes, or with a leading
\* slash, as for v itself.
C9_NormalizationEquivalence ==
  rpc = "return" =>
    \A v \in CleanValues :
      val \in Variants(v) => result = resolve_image(images_base, OtuiDir, v)

\* C9 for the non-empty values: every way of writing a non-empty v resolves
\* as v does
C9_NonEmptyValues ==
  rpc = "return" =>
    \A v \in CleanValues \ {<<>>} :
      val \in Variants(v) => result = resolve_image(images_base, OtuiDir, v)

\* a padded, quoted value has resolved to a file that exists
C9_NonEmptyWitness ==
  /\ rpc = "return"
  /\ val = Padded(SingleQuoted(<<"i", "/", "p", ".", "p", "n", "g">>))
  /\ result # None

\* ------------------------------------ properties of discover_images_base
\* the folders the scripts name that are directories
ExistingFolders == {lua_hits[k].key : k \in 1..Len(lua_hits)} \cap fs.dirs

\* C7: when the script scan is reached and at least one of the folders the
\* scripts name is a directory, a folder that is a directory is returned,
\* and none of the existing folders is named more often than it.
C7_BestExistingFolder ==
  (dpc = "done" /\ via = 3 /\ ExistingFolders # {}) =>
    /\ found # None
    /\ found[1] \in ExistingFolders
    /\ \A c \in ExistingFolders : CountOf(lua_hits, c) <= CountOf(lua_hits, found[1])

\* the directories at or below the document's directory
DirsUnder(m) == {r \in fs.dirs : Len(r) >= Len(m) /\ SubSeq(r, 1, Len(m)) = m}

\* the number of files of directory r named like the basename of an
\* image-source value of the tree
NamedIn(r) ==
  Cardinality({f \in fs.files : Parent(f) = r /\ Name(f) \in ImageNames(tree)})

\* the likely names that are directories directly under the document's
LikelyPresent ==
  {k \in 1..Len(LIKELY_DIRS) : IsDir(Append(Parent(OtuiPath), LIKELY_DIRS[k]))}

\* the order of the three strategies: a likely directory decides first, then
\* the directories holding files named like image-source values, and the
\* script scan, which returns None or a directory the scripts name, only
\* when both found nothing
StrategyOrder ==
  LET m == Parent(OtuiPath)
      hitDirs == {r \in DirsUnder(m) : NamedIn(r) > 0}
  IN IF LikelyPresent # {}
     THEN /\ found = Some(Append(m, LIKELY_DIRS[MinOf(LikelyPresent)]))
          /\ via = 1
          /\ hits = <<>> /\ lua_hits = <<>>
     ELSE IF hitDirs # {}
     THEN /\ found # None
          /\ found[1] \in hitDirs
          /\ \A r \in hitDirs : NamedIn(r) <= NamedIn(found[1])
          /\ via = 2
          /\ lua_hits = <<>>
     ELSE /\ via = 3
          /\ found = None \/ found[1] \in ExistingFolders

\* the first two strategies decide as the claim says, and the script scan
\* is reached only after both found nothing
C8_OrderOfStrategies == dpc = "done" => StrategyOrder

\* C8: the three strategies apply in order and the first that succeeds
\* decides: the first likely name that is a directory; otherwise a directory
\* with the most files named like image-source basenames, without the script
\* scan; only otherwise the script scan.  None is returned only when all three
\* fail: no likely directory, no directory with such a file, and no folder
\* named by the scripts that is a directory.
C8_FirstSuccessWins ==
  dpc = "done" =>
    /\ StrategyOrder
    /\ found = None =>
         /\ LikelyPresent = {}
         /\ \A r \in DirsUnder(Parent(OtuiPath)) : NamedIn(r) = 0
         /\ ExistingFolders = {}

\* ------------------------------------------------- properties of the editor
\* C10: an apply_change on a selected item followed at once by undo leaves
\* in the text pane exactly the text that was there before the
\* apply_change, and a redo at once after that undo brings back the text
\* the apply_change produced
C10_UndoRestores ==
  /\ step = "undone" => editor_text = text_before
  /\ step = "redone" => editor_text = text_applied

\* a redo has followed an undo that followed an apply_change; the
\* apply_change pushed its text, one that to_string would not have
\* written, over another snapshot and changed it
C10_Witness ==
  /\ step = "redone"
  /\ text_before # text_applied
  /\ text_before # to_string(parse_text(text_before, indent_size), indent_size)
  /\ Len(undo_stack) = 2
  /\ undo_stack[1] # text_before
  /\ undo_stack[2] = text_before
  /\ editor_text = text_applied

\* C11: immediately after an apply_change that acted on a selected item
\* the redo stack is empty, so that redo cannot bring back a snapshot
\* undone before that edit
C11_ApplyEmptiesRedo == step = "applied" => redo_stack = <<>>

\* the part of C11 that the code keeps: redo_stack outlives an
\* apply_change only when the text before it was the top of undo_stack,
\* the case in which apply_change pushes nothing
C11_PushEmptiesRedo ==
  (step = "applied" /\ redo_stack # <<>>) =>
    /\ undo_stack # <<>>
    /\ Last(undo_stack) = text_before
====
